---- MODULE Spec2Model ----
(***************************************************************************)
(* Signer abstraction of nucypher: the EIP-55 address validation decorator *)
(* (nucypher/blockchain/eth/decorators.py) and the signer backends         *)
(* (nucypher/blockchain/eth/signers.py).                                   *)
(*                                                                         *)
(* Python values are records [t, id, form]: t is the Python type name, id  *)
(* tells apart the 20-byte accounts, form is the spelling of a string.     *)
(* Every public call is one action; what it did is kept in `last`: the     *)
(* arguments, the value returned or the exception raised, the state of the *)
(* key cache before the call and the trace of the steps the call took      *)
(* (validation of a parameter, entry into a method body, decryption, IPC   *)
(* request, device call), in the order the code takes them.                *)
(***************************************************************************)
EXTENDS Naturals, Sequences, FiniteSets, TLC

VARIABLES keys, signers, verified, addresses, alive, last, hist, threads

vars == <<keys, signers, verified, addresses, alive, last, hist, threads>>

(***************************************************************************)
(* Bounds and program constants                                            *)
(***************************************************************************)
\* number of distinct accounts the callers may name
NumAddresses == 3
\* number of key files a keystore directory may hold
MaxKeys == 2
\* number of completed calls the history of SpecSeq remembers
MaxHist == 3
\* TrezorSigner.ADDRESS_CACHE_SIZE
ADDRESS_CACHE_SIZE == 3

(***************************************************************************)
(* Python values                                                           *)
(***************************************************************************)
\* an EIP-55 checksummed address string of account i
Addr(i) == [t |-> "str", id |-> i, form |-> "checksum"]
\* the all-lowercase hex spelling of account i: an address, but not checksummed
Lower(i) == [t |-> "str", id |-> i, form |-> "lower"]
\* a password string; Password(i) decrypts the key file of account i
Password(i) == [t |-> "str", id |-> i, form |-> "password"]
None == [t |-> "NoneType", id |-> 0, form |-> "None"]
Int42 == [t |-> "int", id |-> 42, form |-> "42"]
EmptyList == [t |-> "list", id |-> 0, form |-> "[]"]

\* NULL_ADDRESS, forty zeros: no letter to case, so its checksum holds
NULL_ADDRESS == Addr(0)
\* the falsy strings a transaction may carry as its destination
EmptyStr == [t |-> "str", id |-> 0, form |-> "empty"]
\* the empty bytes, another falsy destination
EmptyBytes == [t |-> "bytes", id |-> 0, form |-> "empty"]
ChecksumAddresses == {Addr(i) : i \in 1..NumAddresses}
NonStrings == {None, Int42, EmptyList}
\* what a caller may pass where an address is expected
AddressValues == ChecksumAddresses \cup {Lower(1), None, EmptyList}
WrongPassword == Password(0)

isinstance_str(v) == v.t = "str"
\* list is the unhashable type among the values: set membership and dict
\* lookup raise TypeError on it
Hashable(v) == v.t # "list"
is_checksum_address(v) == isinstance_str(v) /\ v.form = "checksum"
\* bool(v) is False
Falsy(v) == v \in {None, EmptyStr, EmptyBytes, EmptyList}
\* eth_utils.is_address: a hex string of forty digits, checksummed or of one
\* case
is_address(v) == isinstance_str(v) /\ v.form \in {"checksum", "lower"}
\* eth_utils.to_checksum_address of an address: the same account, spelled
\* with its checksum
to_checksum_address(v) == Addr(v.id)

Range(s) == {s[i] : i \in DOMAIN s}

(***************************************************************************)
(* A call in progress: the state it works on, the trace of its steps and   *)
(* what it returned or raised                                              *)
(***************************************************************************)
Start(sg, vf) == [signers |-> sg, verified |-> vf, trace |-> <<>>,
                  ret |-> "none", err |-> "none"]
\* a step of the call; `value` is the argument a validation step looked at
EventV(c, kind, name, detail, value) ==
    [c EXCEPT !.trace = Append(@, [kind |-> kind, name |-> name,
                                   detail |-> detail, value |-> value])]
Event(c, kind, name, detail) == EventV(c, kind, name, detail, None)
Return(c, r) == [c EXCEPT !.ret = r]
Raise(c, e) == [c EXCEPT !.err = e, !.ret = "none"]
Failed(c) == c.err # "none"

(***************************************************************************)
(* decorators.py: validate_checksum_address                                *)
(***************************************************************************)
\* a parameter of a function signature: suffix tells whether the name ends
\* with "_address", default_none whether the declared default is None
Param(n, sfx, dn) == [name |-> n, suffix |-> sfx, default_none |-> dn]
aliases == {"account", "address"}

account_only == <<Param("account", FALSE, FALSE)>>
unlock_params == <<Param("account", FALSE, FALSE), Param("password", FALSE, FALSE),
                   Param("duration", FALSE, TRUE)>>

\* inspect.signature(func).parameters, self left out, in declaration order
Signature(cls, op) ==
    CASE op = "unlock_account" -> unlock_params
      [] op = "lock_account" -> account_only
      [] op = "is_device" -> account_only
      [] op = "__get_signer" -> account_only
      [] op = "sign_transaction" -> <<Param("transaction_dict", FALSE, FALSE)>>
      [] op = "sign_message" /\ cls = "ClefSigner" ->
            <<Param("account", FALSE, FALSE), Param("message", FALSE, FALSE),
              Param("content_type", FALSE, TRUE),
              Param("validator_address", TRUE, TRUE), Param("kwargs", FALSE, FALSE)>>
      [] op = "sign_message" /\ cls = "TrezorSigner" ->
            <<Param("message", FALSE, FALSE), Param("checksum_address", TRUE, FALSE)>>
      [] op = "sign_message" ->
            <<Param("account", FALSE, FALSE), Param("message", FALSE, FALSE),
              Param("kwargs", FALSE, FALSE)>>
      [] op = "get_address_path" ->
            <<Param("index", FALSE, TRUE), Param("checksum_address", TRUE, TRUE)>>
      [] OTHER -> <<>>

\* the methods that carry @validate_checksum_address
Decorated(cls, op) ==
    CASE cls = "KeystoreSigner" ->
            op \in {"__get_signer", "is_device", "unlock_account", "lock_account",
                    "sign_transaction", "sign_message"}
      [] cls = "ClefSigner" ->
            op \in {"is_device", "sign_transaction", "sign_message",
                    "unlock_account", "lock_account"}
      [] cls = "Web3Signer" ->
            op \in {"is_device", "unlock_account", "lock_account", "sign_message"}
      [] cls = "TrezorSigner" -> op \in {"unlock_account", "lock_account"}
      [] OTHER -> FALSE

IsAddressParam(p) == p.suffix \/ p.name \in aliases
addresses_as_parameters(cls, op) == SelectSeq(Signature(cls, op), IsAddressParam)

\* the validation of one parameter recorded in the trace
Checked(c, p, how, checksum_address) ==
    EventV(c, "validate", p.name, how, checksum_address)

\* validate_loop gone wrong: a string that fails the checksum is logged and
\* the loop goes on
RECURSIVE validate_loop_lenient(_, _, _, _)
validate_loop_lenient(params, args, i, c) ==
    IF i > Len(params) THEN c
    ELSE LET p == params[i]
             checksum_address == args[p.name]
         IN IF ~Hashable(checksum_address)
               THEN Raise(Checked(c, p, "TypeError", checksum_address), "TypeError")
            ELSE IF checksum_address \in c.verified
               THEN validate_loop_lenient(params, args, i + 1,
                                          Checked(c, p, "hit", checksum_address))
            ELSE IF p.default_none /\ checksum_address = None
               THEN validate_loop_lenient(params, args, i + 1,
                                          Checked(c, p, "optional", checksum_address))
            ELSE IF is_checksum_address(checksum_address)
               THEN validate_loop_lenient(params, args, i + 1,
                       Checked([c EXCEPT !.verified = @ \cup {checksum_address}],
                               p, "checked", checksum_address))
            ELSE IF ~isinstance_str(checksum_address)
               THEN Raise(Checked(c, p, "TypeError", checksum_address), "TypeError")
            ELSE validate_loop_lenient(params, args, i + 1,
                       Checked(c, p, "InvalidChecksumAddress", checksum_address))

\* validate_loop gone wrong: a valid address is not added to the cache
RECURSIVE validate_loop_no_cache(_, _, _, _)
validate_loop_no_cache(params, args, i, c) ==
    IF i > Len(params) THEN c
    ELSE LET p == params[i]
             checksum_address == args[p.name]
         IN IF ~Hashable(checksum_address)
               THEN Raise(Checked(c, p, "TypeError", checksum_address), "TypeError")
            ELSE IF checksum_address \in c.verified
               THEN validate_loop_no_cache(params, args, i + 1,
                                           Checked(c, p, "hit", checksum_address))
            ELSE IF p.default_none /\ checksum_address = None
               THEN validate_loop_no_cache(params, args, i + 1,
                                           Checked(c, p, "optional", checksum_address))
            ELSE IF is_checksum_address(checksum_address)
               THEN validate_loop_no_cache(params, args, i + 1,
                                           Checked(c, p, "checked", checksum_address))
            ELSE IF ~isinstance_str(checksum_address)
               THEN Raise(Checked(c, p, "TypeError", checksum_address), "TypeError")
            ELSE Raise(Checked(c, p, "InvalidChecksumAddress", checksum_address),
                       "InvalidChecksumAddress")

\* validate_loop gone wrong: a string is added to the cache before it is
\* checked
RECURSIVE validate_loop_add_first(_, _, _, _)
validate_loop_add_first(params, args, i, c) ==
    IF i > Len(params) THEN c
    ELSE LET p == params[i]
             checksum_address == args[p.name]
             added == [c EXCEPT !.verified = @ \cup {checksum_address}]
         IN IF ~Hashable(checksum_address)
               THEN Raise(Checked(c, p, "TypeError", checksum_address), "TypeError")
            ELSE IF checksum_address \in c.verified
               THEN validate_loop_add_first(params, args, i + 1,
                                            Checked(c, p, "hit", checksum_address))
            ELSE IF p.default_none /\ checksum_address = None
               THEN validate_loop_add_first(params, args, i + 1,
                                            Checked(c, p, "optional", checksum_address))
            ELSE IF is_checksum_address(checksum_address)
               THEN validate_loop_add_first(params, args, i + 1,
                                            Checked(added, p, "checked", checksum_address))
            ELSE IF ~isinstance_str(checksum_address)
               THEN Raise(Checked(c, p, "TypeError", checksum_address), "TypeError")
            ELSE Raise(Checked(added, p, "InvalidChecksumAddress", checksum_address),
                       "InvalidChecksumAddress")

\* the for loop over the address parameters, from the i-th on
RECURSIVE validate_loop(_, _, _, _)
validate_loop(params, args, i, c) ==
    IF i > Len(params) THEN c
    ELSE LET p == params[i]
             checksum_address == args[p.name]
         IN IF ~Hashable(checksum_address)
               THEN Raise(Checked(c, p, "TypeError", checksum_address), "TypeError")
            ELSE IF checksum_address \in c.verified
               THEN validate_loop(params, args, i + 1,
                                  Checked(c, p, "hit", checksum_address))
            ELSE IF p.default_none /\ checksum_address = None
               THEN validate_loop(params, args, i + 1,
                                  Checked(c, p, "optional", checksum_address))
            ELSE IF is_checksum_address(checksum_address)
               THEN validate_loop(params, args, i + 1,
                       Checked([c EXCEPT !.verified = @ \cup {checksum_address}],
                               p, "checked", checksum_address))
            ELSE IF ~isinstance_str(checksum_address)
               THEN Raise(Checked(c, p, "TypeError", checksum_address), "TypeError")
            ELSE Raise(Checked(c, p, "InvalidChecksumAddress", checksum_address),
                       "InvalidChecksumAddress")

\* wrapped(*args, **kwargs) up to the call of func: the context after the
\* loop, with the entry into func recorded when the loop ran to its else
wrapped(cls, op, args, c) ==
    LET v == IF Decorated(cls, op)
                THEN validate_loop(addresses_as_parameters(cls, op), args, 1, c)
                ELSE c
    IN IF Failed(v) THEN v ELSE Event(v, "body", op, cls)

(***************************************************************************)
(* signers.py: Signer                                                      *)
(***************************************************************************)
\* the exception classes derived from Signer.SignerError
SignerErrors ==
    {"SignerError", "InvalidSignerURI", "AccountLocked", "UnknownAccount",
     "InvalidKeyfile"}

(***************************************************************************)
(* signers.py: KeystoreSigner                                              *)
(***************************************************************************)
\* the LocalAccount that decrypting the key file of `account` yields
LocalAccount(account) == [key_of |-> account.id]

\* KeystoreSigner.accounts
accounts(ks) == ks

\* __get_signer gone wrong: the two errors of the except branch swapped
get_signer_swapped(ks, args, c0) ==
    LET c == wrapped("KeystoreSigner", "__get_signer", args, c0)
        account == args.account
    IN IF Failed(c) THEN c
       ELSE IF account \in DOMAIN c.signers THEN Return(c, "signer")
       ELSE IF account \notin Range(ks) THEN Raise(c, "AccountLocked")
       ELSE Raise(c, "UnknownAccount")

get_signer(ks, args, c0) ==
    LET c == wrapped("KeystoreSigner", "__get_signer", args, c0)
        account == args.account
    IN IF Failed(c) THEN c
       ELSE IF account \in DOMAIN c.signers THEN Return(c, "signer")
       ELSE IF account \notin Range(ks) THEN Raise(c, "UnknownAccount")
       ELSE Raise(c, "AccountLocked")

\* decrypt gone wrong: any string opens the key file
decrypt_any(c, account, password) ==
    LET d == Event(c, "decrypt", "key_metadata", "")
    IN IF ~isinstance_str(password) THEN Raise(d, "TypeError")
       ELSE Return(d, "key")

\* Account.from_key(Account.decrypt(key_metadata, password)): None as
\* password is a TypeError, a password that is not the file's a ValueError
decrypt(c, account, password) ==
    LET d == Event(c, "decrypt", "key_metadata", "")
    IN IF ~isinstance_str(password) THEN Raise(d, "TypeError")
       ELSE IF password # Password(account.id) THEN Raise(d, "ValueError")
       ELSE Return(d, "key")

\* unlock_account gone wrong: the key file is decrypted whether or not a
\* signer is cached
unlock_account_always_decrypt(ks, args, c0) ==
    LET c == wrapped("KeystoreSigner", "unlock_account", args, c0)
        account == args.account
    IN IF Failed(c) THEN c
       ELSE IF account \notin Range(ks) THEN Raise(c, "UnknownAccount")
       ELSE LET d == decrypt(c, account, args.password)
            IN IF Failed(d) THEN d
               ELSE Return([d EXCEPT !.signers =
                               [a \in DOMAIN @ \cup {account} |->
                                   IF a = account THEN LocalAccount(account) ELSE @[a]]],
                           "True")

\* unlock_account gone wrong: the key file is decrypted without a look at
\* the known accounts
unlock_account_no_lookup(ks, args, c0) ==
    LET c == wrapped("KeystoreSigner", "unlock_account", args, c0)
        account == args.account
    IN IF Failed(c) THEN c
       ELSE IF account \in DOMAIN c.signers THEN Return(c, "True")
       ELSE LET d == decrypt(c, account, args.password)
            IN IF Failed(d) THEN d
               ELSE Return([d EXCEPT !.signers =
                               [a \in DOMAIN @ \cup {account} |->
                                   IF a = account THEN LocalAccount(account) ELSE @[a]]],
                           "True")

unlock_account(ks, args, c0) ==
    LET c == wrapped("KeystoreSigner", "unlock_account", args, c0)
        account == args.account
    IN IF Failed(c) THEN c
       ELSE IF account \in DOMAIN c.signers THEN Return(c, "True")
       ELSE IF account \notin Range(ks) THEN Raise(c, "UnknownAccount")
       ELSE LET d == decrypt(c, account, args.password)
            IN IF Failed(d) THEN d
               ELSE Return([d EXCEPT !.signers =
                               [a \in DOMAIN @ \cup {account} |->
                                   IF a = account THEN LocalAccount(account) ELSE @[a]]],
                           "True")

\* lock_account gone wrong: the cached signer is looked up, not popped
lock_account_keep(ks, args, c0) ==
    LET c == wrapped("KeystoreSigner", "lock_account", args, c0)
        account == args.account
    IN IF Failed(c) THEN c
       ELSE IF account \notin DOMAIN c.signers /\ account \notin Range(ks)
          THEN Raise(c, "UnknownAccount")
       ELSE Return(c, IF account \notin DOMAIN c.signers THEN "True" ELSE "False")

\* lock_account gone wrong: a KeyError of the pop is UnknownAccount without a
\* look at the known accounts
lock_account_strict(ks, args, c0) ==
    LET c == wrapped("KeystoreSigner", "lock_account", args, c0)
        account == args.account
        popped == [c EXCEPT !.signers = [a \in DOMAIN @ \ {account} |-> @[a]]]
    IN IF Failed(c) THEN c
       ELSE IF account \in DOMAIN c.signers THEN Return(popped, "True")
       ELSE Raise(c, "UnknownAccount")

lock_account(ks, args, c0) ==
    LET c == wrapped("KeystoreSigner", "lock_account", args, c0)
        account == args.account
        popped == [c EXCEPT !.signers = [a \in DOMAIN @ \ {account} |-> @[a]]]
    IN IF Failed(c) THEN c
       ELSE IF account \in DOMAIN c.signers
          THEN Return(popped, IF account \notin DOMAIN popped.signers
                                 THEN "True" ELSE "False")
       ELSE IF account \notin Range(accounts(ks)) THEN Raise(c, "UnknownAccount")
       ELSE Return(c, IF account \notin DOMAIN c.signers THEN "True" ELSE "False")

\* the payload handed to LocalAccount.sign_transaction: 'to' is dissoc'ed
\* when falsy
sign_transaction(ks, args, c0) ==
    LET c == wrapped("KeystoreSigner", "sign_transaction", args, c0)
        transaction_dict == args.transaction_dict
        sender == transaction_dict.from
        s == get_signer(ks, [account |-> sender], c)
        falsy_to == Falsy(transaction_dict.to)
    IN IF Failed(c) THEN c
       ELSE IF Failed(s) THEN s
       ELSE Return(Event(s, "sign", "transaction",
                         IF falsy_to THEN "to absent" ELSE "to present"),
                   "rawTransaction")

sign_message(ks, args, c0) ==
    LET c == wrapped("KeystoreSigner", "sign_message", args, c0)
        s == get_signer(ks, [account |-> args.account], c)
    IN IF Failed(c) THEN c
       ELSE IF Failed(s) THEN s
       ELSE Return(Event(s, "sign", "message", "encode_defunct"), "signature")

\* __del__: lock_account for each account of __keys, in the dict's order; an
\* exception ends the loop
RECURSIVE del_loop(_, _, _)
del_loop(ks, i, c) ==
    IF i > Len(ks) THEN c
    ELSE LET l == lock_account(ks, [account |-> ks[i]], c)
         IN IF Failed(l) THEN l ELSE del_loop(ks, i + 1, Return(l, "none"))

\* __del__ gone wrong: only the first account is locked
del_first_only(ks, c0) ==
    IF Len(ks) > 0 THEN lock_account(ks, [account |-> ks[1]], c0) ELSE c0

del(ks, c0) == IF Len(ks) > 0 THEN del_loop(ks, 1, c0) ELSE c0

(***************************************************************************)
(* signers.py: ClefSigner                                                  *)
(***************************************************************************)
SIGN_DATA_FOR_VALIDATOR == "data/validator"
SIGN_DATA_FOR_CLIQUE == "application/clique"
SIGN_DATA_FOR_ECRECOVER == "text/plain"
DEFAULT_CONTENT_TYPE == SIGN_DATA_FOR_ECRECOVER
SIGN_DATA_CONTENT_TYPES ==
    {SIGN_DATA_FOR_VALIDATOR, SIGN_DATA_FOR_CLIQUE, SIGN_DATA_FOR_ECRECOVER}
\* content_type left at its default None
NoContentType == "None"

\* __ipc_request: `status` is what request_blocking does this time
ipc_request(c, endpoint, status) ==
    LET r == Event(c, "ipc", endpoint, status)
    IN CASE status = "FileNotFoundError" -> Raise(r, "FileNotFoundError")
         [] status = "ConnectionRefusedError" -> Raise(r, "ConnectionRefusedError")
         [] OTHER -> Return(r, "response")

\* sign_message gone wrong: the validator address is required to be given,
\* and NULL_ADDRESS counts as given
clef_sign_message_null_passes(args, status, c0) ==
    LET c == wrapped("ClefSigner", "sign_message", args, c0)
        content_type == IF args.content_type = NoContentType
                           THEN DEFAULT_CONTENT_TYPE ELSE args.content_type
        validator_address == args.validator_address
    IN IF Failed(c) THEN c
       ELSE IF content_type \notin SIGN_DATA_CONTENT_TYPES THEN Raise(c, "ValueError")
       ELSE IF content_type = SIGN_DATA_FOR_VALIDATOR /\ validator_address = None
          THEN Raise(c, "ValueError")
       ELSE IF content_type \notin {SIGN_DATA_FOR_VALIDATOR, SIGN_DATA_FOR_ECRECOVER}
          THEN Raise(c, "NotImplementedError")
       ELSE LET r == ipc_request(c, "account_signData", status)
            IN IF Failed(r) THEN r ELSE Return(r, "signature")

clef_sign_message(args, status, c0) ==
    LET c == wrapped("ClefSigner", "sign_message", args, c0)
        content_type == IF args.content_type = NoContentType
                           THEN DEFAULT_CONTENT_TYPE ELSE args.content_type
        validator_address == args.validator_address
    IN IF Failed(c) THEN c
       ELSE IF content_type \notin SIGN_DATA_CONTENT_TYPES THEN Raise(c, "ValueError")
       ELSE IF content_type = SIGN_DATA_FOR_VALIDATOR
                /\ (validator_address = None \/ validator_address = NULL_ADDRESS)
          THEN Raise(c, "ValueError")
       ELSE IF content_type \notin {SIGN_DATA_FOR_VALIDATOR, SIGN_DATA_FOR_ECRECOVER}
          THEN Raise(c, "NotImplementedError")
       ELSE LET r == ipc_request(c, "account_signData", status)
            IN IF Failed(r) THEN r ELSE Return(r, "signature")

\* ClefSigner.accounts
clef_accounts(status, c0) ==
    LET r == ipc_request(c0, "account_list", status)
    IN IF Failed(r) THEN r ELSE Return(r, "checksum_addresses")

\* the step that hands a transaction on, with what it carries as recipient
Payload(c, step, detail, to) == EventV(c, "payload", step, detail, to)

\* ClefSigner.sign_transaction: b'' becomes None, a truthy 'to' is
\* formatted with to_checksum_address, any other 'to' goes out as it came
clef_sign_transaction(args, status, c0) ==
    LET c == wrapped("ClefSigner", "sign_transaction", args, c0)
        transaction_dict == args.transaction_dict
        to == IF transaction_dict.to = EmptyBytes THEN None ELSE transaction_dict.to
        bad == {v \in {transaction_dict.from} \cup
                        (IF Falsy(to) THEN {} ELSE {to}) : ~is_address(v)}
        formatted == Payload(c, "account_signTransaction",
                             IF to = None THEN "to null"
                             ELSE IF Falsy(to) THEN "to empty" ELSE "to present",
                             IF Falsy(to) THEN to ELSE to_checksum_address(to))
        signed == ipc_request(formatted, "account_signTransaction", status)
    IN IF Failed(c) THEN c
       ELSE IF \E v \in bad : ~isinstance_str(v) THEN Raise(c, "TypeError")
       ELSE IF bad # {} THEN Raise(c, "ValueError")
       ELSE IF Failed(signed) THEN signed
       ELSE Return(signed, "raw")

\* unlock_account and lock_account of ClefSigner and of TrezorSigner
noop_account(cls, op, args, c0) ==
    LET c == wrapped(cls, op, args, c0)
    IN IF Failed(c) THEN c ELSE Return(c, "True")

(***************************************************************************)
(* signers.py: TrezorSigner                                                *)
(***************************************************************************)
\* an address index, and the HD path parse_path makes of the index i
Index(i) == [t |-> "int", id |-> i, form |-> "index"]
HdPath(i) == [t |-> "list", id |-> i, form |-> "hd_path"]

\* get_address_path gone wrong: an address the cache does not hold gets the
\* path of the first index
get_address_path_default(addrs, index, checksum_address, c0) ==
    LET c == wrapped("TrezorSigner", "get_address_path",
                     [index |-> index, checksum_address |-> checksum_address], c0)
    IN IF index # None /\ ~Falsy(checksum_address) THEN Raise(c, "ValueError")
       ELSE IF index # None THEN Return(c, "hd_path")
       ELSE IF ~Hashable(checksum_address) THEN Raise(c, "TypeError")
       ELSE Return(c, "hd_path")

\* get_address_path(index=..., checksum_address=...)
get_address_path_of(addrs, index, checksum_address, c0) ==
    LET c == wrapped("TrezorSigner", "get_address_path",
                     [index |-> index, checksum_address |-> checksum_address], c0)
    IN IF index # None /\ ~Falsy(checksum_address) THEN Raise(c, "ValueError")
       ELSE IF index # None THEN Return(c, "hd_path")
       ELSE IF ~Hashable(checksum_address) THEN Raise(c, "TypeError")
       ELSE IF checksum_address \notin DOMAIN addrs THEN Raise(c, "RuntimeError")
       ELSE Return(c, "hd_path")

\* get_address_path(checksum_address=...), index left at None
get_address_path(addrs, checksum_address, c0) ==
    get_address_path_of(addrs, None, checksum_address, c0)

\* __handle_device_call around a device function: `status` is what the USB
\* transport does this time. TrezorSigner has no DeviceError attribute, so
\* the busy branch ends in AttributeError
handle_device_call(c, call, status) ==
    LET r == Event(c, "device", call, status)
    IN CASE status = "USBErrorNoDevice" -> Raise(r, "NoDeviceDetected")
         [] status = "USBErrorBusy" -> Raise(r, "AttributeError")
         [] OTHER -> Return(r, "result")

\* sign_message: the result is wrapped in self.Signature, an attribute the
\* class does not have
trezor_sign_message(addrs, args, status, c0) ==
    LET c == wrapped("TrezorSigner", "sign_message", args, c0)
        p == get_address_path(addrs, args.checksum_address, c)
        r == handle_device_call(p, "sign_message", status)
    IN IF Failed(c) THEN c
       ELSE IF Failed(p) THEN p
       ELSE IF Failed(r) THEN r
       ELSE Raise(r, "AttributeError")

\* get_address: the path is looked up only when no hd_path is given, and
\* the device is asked for the address of the path
get_address(addrs, args, status, c0) ==
    LET c == wrapped("TrezorSigner", "get_address", args, c0)
        p == IF Falsy(args.hd_path)
                THEN get_address_path_of(addrs, args.index, None, c)
                ELSE c
        r == handle_device_call(p, "get_address", status)
    IN IF Falsy(args.hd_path) /\ args.index = None THEN Raise(c, "ValueError")
       ELSE IF Failed(p) THEN p
       ELSE IF Failed(r) THEN r
       ELSE Return(r, "address")

\* eth_utils.to_canonical_address: the twenty bytes of the account
to_canonical_address(v) == [t |-> "bytes", id |-> v.id, form |-> "canonical"]

\* how a destination reads to the step it is handed to
ToDetail(to) ==
    IF to = None THEN "to null" ELSE IF Falsy(to) THEN "to empty" ELSE "to present"

\* TrezorSigner.sign_transaction, of a transaction that carries every
\* required field and a chain id: the device signs the transaction with the
\* 'to' it came with, 'chainId' is deleted, and the Transaction that is
\* serialized and returned gets the sender's canonical address as 'to'
trezor_sign_transaction(addrs, args, status, c0) ==
    LET c == wrapped("TrezorSigner", "sign_transaction", args, c0)
        transaction_dict == args.transaction_dict
        checksum_address == transaction_dict.from
        to == transaction_dict.to
        n == get_address_path(addrs, checksum_address, c)
        r == handle_device_call(Payload(n, "sign_tx", ToDetail(to), to),
                                "sign_tx", status)
        signed == Payload(Event(r, "del", "transaction_dict", "chainId"),
                          "Transaction", "to sender",
                          to_canonical_address(checksum_address))
    IN IF ~Hashable(to) THEN Raise(c, "TypeError")
       ELSE IF ~Falsy(to) /\ ~is_checksum_address(to) THEN Raise(c, "TypeError")
       ELSE IF Failed(n) THEN n
       ELSE IF Failed(r) THEN r
       ELSE Return(signed, "raw")

(***************************************************************************)
(* signers.py: construction of a KeystoreSigner                            *)
(***************************************************************************)
\* a field a JSON object does not have
NoField == [t |-> "absent", id |-> 0, form |-> "absent"]
\* what a file of the keystore holds: text that is no JSON, JSON that is
\* no object (a list, a string, a number, null), or a JSON object with
\* or without an 'address'
NotJson == [json |-> "invalid", address |-> NoField]
JsonArray == [json |-> "array", address |-> NoField]
JsonObject(address) == [json |-> "object", address |-> address]
\* the path of the i-th entry of the keystore
FilePath(i) == [t |-> "str", id |-> i, form |-> "path"]

\* __read_keyfile: json.load, then key_metadata['address']
read_keyfile(c, path, file) ==
    LET r == EventV(c, "keyfile", "open", file.json, path)
    IN CASE file.json = "invalid" -> Raise(r, "JSONDecodeError")
         [] file.json = "array" -> Raise(r, "TypeError")
         [] file.address = NoField -> Raise(r, "KeyError")
         [] OTHER -> Return(r, "address")

\* __handle_keyfile: the errors it catches become InvalidKeyfile with the
\* path in the message, any other goes through; the address must be one
handle_keyfile(c, path, file) ==
    LET r == read_keyfile(c, path, file)
    IN IF r.err \in {"FileNotFoundError", "JSONDecodeError", "KeyError"}
          THEN Raise(EventV(r, "named", "InvalidKeyfile", "", path), "InvalidKeyfile")
       ELSE IF Failed(r) THEN r
       ELSE IF ~is_address(file.address)
          THEN Raise(EventV(r, "named", "InvalidKeyfile", "", path), "InvalidKeyfile")
       ELSE Return(r, "address")

\* self.__keys[account] = key_metadata: a new account goes last, a known
\* one keeps its place
SetKey(ks, account) == IF account \in Range(ks) THEN ks ELSE Append(ks, account)

\* the for loop of __read_keystore over the paths, from the i-th on; the
\* result is the call and the keys read so far
RECURSIVE read_loop(_, _, _, _)
read_loop(files, i, ks, c) ==
    IF i > Len(files) THEN [call |-> c, keys |-> ks]
    ELSE LET h == handle_keyfile(c, FilePath(i), files[i])
         IN IF Failed(h) THEN [call |-> h, keys |-> ks]
            ELSE read_loop(files, i + 1,
                           SetKey(ks, to_checksum_address(files[i].address)),
                           Return(h, "none"))

\* what os.stat finds at the keystore path: a directory with its regular
\* files in the order of os.scandir, one regular file, something else,
\* nothing, or an error
Directory(files) == [st |-> "dir", files |-> files]
RegularFile(file) == [st |-> "file", files |-> <<file>>]
NoEntry(st) == [st |-> st, files |-> <<>>]

\* __read_keystore
read_keystore(entry, c) ==
    IF entry.st \in {"dir", "file"} THEN read_loop(entry.files, 1, <<>>, c)
    ELSE [call |-> Raise(c, "InvalidSignerURI"), keys |-> <<>>]

\* a parsed signer URI: what urlparse finds in it
Uri(scheme, netloc, path) == [scheme |-> scheme, netloc |-> netloc, path |-> path]

\* KeystoreSigner.from_signer_uri
keystore_from_signer_uri(uri, entry, c0) ==
    LET c == Event(c0, "from_signer_uri", "KeystoreSigner", uri.scheme)
    IN IF uri.scheme # "keystore" \/ uri.netloc # ""
          THEN [call |-> Raise(c, "InvalidSignerURI"), keys |-> <<>>]
       ELSE LET r == read_keystore(entry, Event(c, "construct", "KeystoreSigner", uri.path))
            IN IF Failed(r.call) THEN r
               ELSE [call |-> Return(r.call, "KeystoreSigner"), keys |-> r.keys]

(***************************************************************************)
(* signers.py: Signer.from_signer_uri and the from_signer_uri of the       *)
(* backends                                                                *)
(***************************************************************************)
\* what a from_signer_uri leaves: the call, and the keys and the device
\* addresses of the signer it built
Built(c, ks, addrs) == [call |-> c, keys |-> ks, addresses |-> addrs]

\* ClefSigner.from_signer_uri
clef_from_signer_uri(uri, c0) ==
    LET c == Event(c0, "from_signer_uri", "ClefSigner", uri.scheme)
    IN IF uri.path = "" /\ uri.netloc = "" THEN Raise(c, "InvalidSignerURI")
       ELSE IF uri.scheme # "clef" THEN Raise(c, "InvalidSignerURI")
       ELSE Return(Event(c, "construct", "ClefSigner", uri.path), "ClefSigner")

\* the address the device derives for the path of index i
DeviceAddress(i) == Addr(i + 1)

\* __load_addresses, from `index` on: the result is the call and the
\* addresses cached so far
RECURSIVE load_addresses(_, _, _, _)
load_addresses(index, addrs, status, c) ==
    IF index >= ADDRESS_CACHE_SIZE THEN [call |-> c, addresses |-> addrs]
    ELSE LET hd_path == get_address_path_of(addrs, Index(index), None, c)
             address == get_address(addrs, [index |-> None, hd_path |-> HdPath(index)],
                                    status, Return(hd_path, "none"))
         IN IF Failed(address) THEN [call |-> address, addresses |-> addrs]
            ELSE load_addresses(index + 1,
                    [a \in DOMAIN addrs \cup {DeviceAddress(index)} |->
                        IF a = DeviceAddress(index) THEN index ELSE addrs[a]],
                    status, Return(address, "none"))

\* TrezorSigner.from_signer_uri and __init__: `status` is what the device
\* does, TransportException when none is found
trezor_from_signer_uri(uri, status, c0) ==
    LET c == Event(c0, "from_signer_uri", "TrezorSigner", uri.scheme)
        client == Event(c, "construct", "TrezorSigner", status)
        loaded == load_addresses(0, <<>>, status, client)
    IN IF uri.scheme # "trezor" \/ uri.netloc # ""
          THEN Built(Raise(c, "InvalidSignerURI"), <<>>, <<>>)
       ELSE IF status = "TransportException"
          THEN Built(Raise(client, "NoDeviceDetected"), <<>>, <<>>)
       ELSE IF Failed(loaded.call) THEN Built(loaded.call, <<>>, <<>>)
       ELSE Built(Return(loaded.call, "TrezorSigner"), <<>>, loaded.addresses)

\* Web3Signer.from_signer_uri: `status` is what get_or_create_interface
\* makes of the provider URI
web3_from_signer_uri(uri, status, c0) ==
    LET c == Event(c0, "from_signer_uri", "Web3Signer", uri.scheme)
    IN IF status = "UnsupportedProvider" THEN Raise(c, "InvalidSignerURI")
       ELSE Return(Event(c, "construct", "Web3Signer", uri.scheme), "Web3Signer")

\* the classes that can be registered, each under its URI_SCHEME
URI_SCHEME ==
    [cls \in {"ClefSigner", "KeystoreSigner", "TrezorSigner"} |->
        CASE cls = "ClefSigner" -> "clef"
          [] cls = "KeystoreSigner" -> "keystore"
          [] cls = "TrezorSigner" -> "trezor"]
\* Signer.SIGNERS with the classes of `registered` in it
Registry(registered) ==
    [scheme \in {URI_SCHEME[cls] : cls \in registered} |->
        CHOOSE cls \in registered : URI_SCHEME[cls] = scheme]

\* from_signer_uri gone wrong: a scheme without a registered class is an
\* invalid URI
from_signer_uri_no_fallback(SIGNERS, uri, entry, status, c0) ==
    IF uri.scheme \notin DOMAIN SIGNERS
       THEN Built(Raise(c0, "InvalidSignerURI"), <<>>, <<>>)
    ELSE Built(Return(Event(Event(c0, "from_signer_uri", SIGNERS[uri.scheme], uri.scheme),
                            "construct", SIGNERS[uri.scheme], uri.path),
                      SIGNERS[uri.scheme]), <<>>, <<>>)

\* Signer.from_signer_uri
from_signer_uri(SIGNERS, uri, entry, status, c0) ==
    LET signer_class == IF uri.scheme \in DOMAIN SIGNERS
                           THEN SIGNERS[uri.scheme] ELSE "Web3Signer"
    IN CASE signer_class = "KeystoreSigner" ->
              LET k == keystore_from_signer_uri(uri, entry, c0)
              IN Built(k.call, k.keys, <<>>)
         [] signer_class = "ClefSigner" -> Built(clef_from_signer_uri(uri, c0), <<>>, <<>>)
         [] signer_class = "TrezorSigner" -> trezor_from_signer_uri(uri, status, c0)
         [] OTHER -> Built(web3_from_signer_uri(uri, status, c0), <<>>, <<>>)

(***************************************************************************)
(* The state machine                                                       *)
(***************************************************************************)
\* the orders in which the key files of a keystore may have been read:
\* every sequence without repetition of the checksummed addresses 1..MaxKeys
KeySequences ==
    {ks \in UNION {[1..n -> {Addr(i) : i \in 1..MaxKeys}] : n \in 0..MaxKeys} :
        \A i, j \in DOMAIN ks : i # j => ks[i] # ks[j]}

NoCall == [cls |-> "none", op |-> "none", args |-> <<>>, ret |-> "none",
           err |-> "none", trace |-> <<>>, pre |-> <<>>]

Init ==
    /\ keys \in KeySequences
    /\ signers = <<>>
    /\ verified = {}
    /\ addresses = [a \in {Addr(i) : i \in 1..ADDRESS_CACHE_SIZE} |-> a.id - 1]
    /\ alive = TRUE
    /\ last = NoCall
    /\ hist = <<>>
    /\ threads = <<>>

\* Done gone wrong: unlock_account takes the key metadata out of the
\* keystore when it decrypts it, as self.__keys.pop(account) would
Done_pops_key(cls, op, args, c) ==
    /\ signers' = c.signers
    /\ verified' = c.verified
    /\ last' = [cls |-> cls, op |-> op, args |-> args, ret |-> c.ret,
                err |-> c.err, trace |-> c.trace, pre |-> signers]
    /\ keys' = IF cls = "KeystoreSigner" /\ op = "unlock_account"
                  /\ c.signers # signers
                  THEN SelectSeq(keys, LAMBDA a : a # args.account) ELSE keys
    /\ UNCHANGED <<addresses, threads>>

\* the call `op` of `cls` with `args` ended as `c` tells: the key cache and
\* the verified addresses are what the call made of them, and no method
\* assigns to the key metadata or to the device addresses
Done(cls, op, args, c) ==
    /\ signers' = c.signers
    /\ verified' = c.verified
    /\ last' = [cls |-> cls, op |-> op, args |-> args, ret |-> c.ret,
                err |-> c.err, trace |-> c.trace, pre |-> signers]
    /\ UNCHANGED <<keys, addresses, threads>>

KsUnlockAccount(account, password) ==
    /\ alive
    /\ LET args == [account |-> account, password |-> password]
       IN \E c \in {unlock_account(keys, args, Start(signers, verified))} :
             Done("KeystoreSigner", "unlock_account", args, c)
    /\ UNCHANGED alive

KsLockAccount(account) ==
    /\ alive
    /\ LET args == [account |-> account]
       IN \E c \in {lock_account(keys, args, Start(signers, verified))} :
             Done("KeystoreSigner", "lock_account", args, c)
    /\ UNCHANGED alive

KsSignTransaction(sender, to) ==
    /\ alive
    /\ LET args == [transaction_dict |-> [from |-> sender, to |-> to]]
       IN \E c \in {sign_transaction(keys, args, Start(signers, verified))} :
             Done("KeystoreSigner", "sign_transaction", args, c)
    /\ UNCHANGED alive

KsSignMessage(account) ==
    /\ alive
    /\ LET args == [account |-> account]
       IN \E c \in {sign_message(keys, args, Start(signers, verified))} :
             Done("KeystoreSigner", "sign_message", args, c)
    /\ UNCHANGED alive

\* the keystore instance is destroyed: no call on it follows
KsDel ==
    /\ alive
    /\ \E c \in {del(keys, Start(signers, verified))} :
          Done("KeystoreSigner", "__del__", <<>>, c)
    /\ alive' = FALSE

IpcStatus == {"ok", "FileNotFoundError", "ConnectionRefusedError"}
DeviceStatus == {"ok", "USBErrorNoDevice", "USBErrorBusy"}

\* what the transport does is drawn only in a call that reaches it
ClefSignMessage(account, content_type, validator_address) ==
    /\ LET args == [account |-> account, content_type |-> content_type,
                    validator_address |-> validator_address]
       IN \E st \in IpcStatus :
          \E c \in {clef_sign_message(args, st, Start(signers, verified))} :
             /\ st = "ok" \/ \E i \in DOMAIN c.trace : c.trace[i].kind = "ipc"
             /\ Done("ClefSigner", "sign_message", args, c)
    /\ UNCHANGED alive

NoopAccount(cls, op, account) ==
    /\ LET args == [account |-> account]
       IN \E c \in {noop_account(cls, op, args, Start(signers, verified))} :
             Done(cls, op, args, c)
    /\ UNCHANGED alive

TrezorSignMessage(checksum_address) ==
    /\ LET args == [checksum_address |-> checksum_address]
       IN \E st \in DeviceStatus :
          \E c \in {trezor_sign_message(addresses, args, st, Start(signers, verified))} :
             /\ st = "ok" \/ \E i \in DOMAIN c.trace : c.trace[i].kind = "device"
             /\ Done("TrezorSigner", "sign_message", args, c)
    /\ UNCHANGED alive

ClefListAccounts ==
    /\ \E st \in IpcStatus :
       \E c \in {clef_accounts(st, Start(signers, verified))} :
          Done("ClefSigner", "accounts", <<>>, c)
    /\ UNCHANGED alive

ClefSignTransaction(sender, to) ==
    /\ LET args == [transaction_dict |-> [from |-> sender, to |-> to]]
       IN \E st \in IpcStatus :
          \E c \in {clef_sign_transaction(args, st, Start(signers, verified))} :
             /\ st = "ok" \/ \E i \in DOMAIN c.trace : c.trace[i].kind = "ipc"
             /\ Done("ClefSigner", "sign_transaction", args, c)
    /\ UNCHANGED alive

TrezorGetAddressPath(index, checksum_address) ==
    /\ LET args == [index |-> index, checksum_address |-> checksum_address]
       IN \E c \in {get_address_path_of(addresses, index, checksum_address,
                                        Start(signers, verified))} :
             Done("TrezorSigner", "get_address_path", args, c)
    /\ UNCHANGED alive

TrezorGetAddress(index, hd_path) ==
    /\ LET args == [index |-> index, hd_path |-> hd_path]
       IN \E st \in DeviceStatus :
          \E c \in {get_address(addresses, args, st, Start(signers, verified))} :
             /\ st = "ok" \/ \E i \in DOMAIN c.trace : c.trace[i].kind = "device"
             /\ Done("TrezorSigner", "get_address", args, c)
    /\ UNCHANGED alive

TrezorSignTransaction(sender, to) ==
    /\ LET args == [transaction_dict |-> [from |-> sender, to |-> to]]
       IN \E st \in DeviceStatus :
          \E c \in {trezor_sign_transaction(addresses, args, st,
                                            Start(signers, verified))} :
             /\ st = "ok" \/ \E i \in DOMAIN c.trace : c.trace[i].kind = "device"
             /\ Done("TrezorSigner", "sign_transaction", args, c)
    /\ UNCHANGED alive

\* Signer.from_signer_uri(uri) with `SIGNERS` registered: the signer it
\* returns takes the place of the one before, a failure leaves none
FromSignerUri(SIGNERS, uri, entry, status) ==
    \E b \in {from_signer_uri(SIGNERS, uri, entry, status, Start(<<>>, verified))} :
        /\ last' = [cls |-> "Signer", op |-> "from_signer_uri",
                    args |-> [SIGNERS |-> SIGNERS, uri |-> uri, entry |-> entry,
                              status |-> status],
                    ret |-> b.call.ret, err |-> b.call.err,
                    trace |-> b.call.trace, pre |-> signers]
        /\ keys' = b.keys
        /\ addresses' = b.addresses
        /\ signers' = <<>>
        /\ alive' = TRUE
        /\ UNCHANGED <<verified, threads>>

\* the secrets tried on an account: its own password, another one, none;
\* one secret where the account never gets as far as the key cache
Secrets(account) ==
    IF is_checksum_address(account)
       THEN {Password(account.id), WrongPassword, None}
       ELSE {WrongPassword}
ToValues == {EmptyStr, Addr(1)}
\* the arguments of the calls on the daemon and the device backends
ClefAccounts == {Addr(1), Int42}
ContentTypes == {NoContentType, SIGN_DATA_FOR_VALIDATOR}
ValidatorValues == {None, Addr(2), Lower(1)}
NoopAccounts == {Addr(1), None}
TrezorValues == {Addr(1), Lower(1)} \cup NonStrings

Next ==
    \/ \E a \in AddressValues : \E p \in Secrets(a) :
          KsUnlockAccount(a, p) /\ UNCHANGED hist
    \/ \E a \in AddressValues : KsLockAccount(a) /\ UNCHANGED hist
    \/ \E a \in AddressValues, to \in ToValues :
          KsSignTransaction(a, to) /\ UNCHANGED hist
    \/ \E a \in AddressValues : KsSignMessage(a) /\ UNCHANGED hist
    \/ KsDel /\ UNCHANGED hist
    \/ \E a \in TrezorValues : TrezorSignMessage(a) /\ UNCHANGED hist
    \/ \E a \in ClefAccounts, ct \in ContentTypes, va \in ValidatorValues :
          ClefSignMessage(a, ct, va) /\ UNCHANGED hist
    \/ \E cls \in {"ClefSigner", "TrezorSigner"},
          op \in {"unlock_account", "lock_account"}, a \in NoopAccounts :
          NoopAccount(cls, op, a) /\ UNCHANGED hist

Spec == Init /\ [][Next]_vars

(***************************************************************************)
(* The keystore calls on two accounts, with the last MaxHist calls         *)
(* remembered: every call on the first account, unlock and lock of the     *)
(* second                                                                  *)
(***************************************************************************)
Remember(h, l) ==
    LET h2 == Append(h, l)
    IN IF Len(h2) > MaxHist THEN Tail(h2) ELSE h2

SeqSecrets == {Password(1), WrongPassword}

NextSeq ==
    \/ \E p \in SeqSecrets :
          KsUnlockAccount(Addr(1), p) /\ hist' = Remember(hist, last')
    \/ KsLockAccount(Addr(1)) /\ hist' = Remember(hist, last')
    \/ KsSignMessage(Addr(1)) /\ hist' = Remember(hist, last')
    \/ KsSignTransaction(Addr(1), EmptyStr) /\ hist' = Remember(hist, last')
    \/ KsUnlockAccount(Addr(2), Password(2)) /\ hist' = Remember(hist, last')
    \/ KsLockAccount(Addr(2)) /\ hist' = Remember(hist, last')

SpecSeq == Init /\ [][NextSeq]_vars

(***************************************************************************)
(* The calls on the signing daemon: every content type, every shape of a   *)
(* destination, the daemon reachable or not                                *)
(***************************************************************************)
InitClef == Init /\ keys = <<>>

DaemonAccounts == {Addr(1), Lower(1), None}
DaemonContentTypes == {NoContentType, "text/html"} \cup SIGN_DATA_CONTENT_TYPES
DaemonValidators == {None, NULL_ADDRESS, Addr(2), Lower(1)}
Destinations == {EmptyStr, EmptyBytes, None, Addr(2)}

NextClef ==
    \/ ClefListAccounts /\ UNCHANGED hist
    \/ \E a \in {Addr(1), Lower(1)}, to \in Destinations :
          ClefSignTransaction(a, to) /\ UNCHANGED hist
    \/ \E a \in DaemonAccounts, ct \in DaemonContentTypes, va \in DaemonValidators :
          ClefSignMessage(a, ct, va) /\ UNCHANGED hist
    \/ \E op \in {"unlock_account", "lock_account"}, a \in DaemonAccounts :
          NoopAccount("ClefSigner", op, a) /\ UNCHANGED hist

SpecClef == InitClef /\ [][NextClef]_vars

(***************************************************************************)
(* The calls on the hardware device: addresses inside and outside the      *)
(* device address cache, by index, by path and by address, the device      *)
(* answering, unplugged or busy                                            *)
(***************************************************************************)
InitTrezor == Init /\ keys = <<>>

\* NULL_ADDRESS and Lower(1) are strings the device address cache does not hold
DeviceAddresses == {Addr(1), NULL_ADDRESS, Lower(1), None, EmptyList}
Indexes == {None, Index(0), Index(1)}
HdPaths == {None, HdPath(1)}

NextTrezor ==
    \/ \E i \in Indexes, a \in DeviceAddresses :
          TrezorGetAddressPath(i, a) /\ UNCHANGED hist
    \/ \E i \in Indexes, h \in HdPaths : TrezorGetAddress(i, h) /\ UNCHANGED hist
    \/ \E a \in DeviceAddresses : TrezorSignMessage(a) /\ UNCHANGED hist
    \/ \E a \in DeviceAddresses, to \in Destinations :
          TrezorSignTransaction(a, to) /\ UNCHANGED hist
    \/ \E op \in {"unlock_account", "lock_account"}, a \in {Addr(1), Addr(2), None} :
          NoopAccount("TrezorSigner", op, a) /\ UNCHANGED hist

SpecTrezor == InitTrezor /\ [][NextTrezor]_vars

(***************************************************************************)
(* sign_transaction of the three backends, of transfers and of contract    *)
(* creations, on a keystore that holds one account                         *)
(***************************************************************************)
InitTx == Init /\ keys = <<Addr(1)>>

Senders == {Addr(1), Addr(2)}

NextTx ==
    \/ KsUnlockAccount(Addr(1), Password(1)) /\ UNCHANGED hist
    \/ \E a \in Senders, to \in Destinations :
          TrezorSignTransaction(a, to) /\ UNCHANGED hist
    \/ \E a \in Senders, to \in Destinations :
          ClefSignTransaction(a, to) /\ UNCHANGED hist
    \/ \E a \in Senders, to \in Destinations :
          KsSignTransaction(a, to) /\ UNCHANGED hist

SpecTx == InitTx /\ [][NextTx]_vars

(***************************************************************************)
(* Signers made from a URI: every scheme with and without an authority     *)
(* and a path, every registry, every keystore of up to MaxKeys files       *)
(***************************************************************************)
InitFactory ==
    /\ keys = <<>>
    /\ signers = <<>>
    /\ verified = {}
    /\ addresses = <<>>
    /\ alive = TRUE
    /\ last = NoCall
    /\ hist = <<>>
    /\ threads = <<>>

Registries == {Registry(r) : r \in SUBSET DOMAIN URI_SCHEME}
Uris == {Uri(s, n, p) : s \in {"keystore", "clef", "trezor", "http"},
                        n \in {"", "host"}, p \in {"", "/path"}}
KeyFiles == {JsonObject(Lower(i)) : i \in 1..MaxKeys}
               \cup {JsonObject(NoField), JsonObject(EmptyStr), NotJson, JsonArray}
Entries ==
    {NoEntry(st) : st \in {"missing", "oserror", "other"}}
       \cup {RegularFile(f) : f \in KeyFiles}
       \cup {Directory(fs) : fs \in UNION {[1..n -> KeyFiles] : n \in 0..MaxKeys}}
\* the class a registry has for a URI
ClassFor(r, uri) == IF uri.scheme \in DOMAIN r THEN r[uri.scheme] ELSE "Web3Signer"
\* what the keystore path holds matters only to a call that reads it, and
\* the empty path holds nothing
EntriesFor(r, uri) ==
    IF ClassFor(r, uri) = "KeystoreSigner" /\ uri.netloc = "" /\ uri.path # ""
       THEN Entries ELSE {NoEntry("missing")}
\* what the device or the provider does matters only to a call that
\* reaches it
StatusFor(r, uri) ==
    CASE ClassFor(r, uri) = "TrezorSigner" /\ uri.netloc = "" ->
            DeviceStatus \cup {"TransportException"}
      [] ClassFor(r, uri) = "Web3Signer" -> {"ok", "UnsupportedProvider"}
      [] OTHER -> {"ok"}

\* one call in each behaviour: the registry, the disk and the device are
\* arguments of the call, and it reads nothing that the call before it left
NextFactory ==
    \E r \in Registries, uri \in Uris :
       \E entry \in EntriesFor(r, uri), st \in StatusFor(r, uri) :
          last = NoCall /\ FromSignerUri(r, uri, entry, st) /\ UNCHANGED hist

SpecFactory == InitFactory /\ [][NextFactory]_vars

(***************************************************************************)
(* unlock_account and lock_account of one keystore called from two threads *)
(* for the same known account. The code takes no lock; the interpreter     *)
(* makes each access to the key cache one step, and the threads interleave *)
(* between the steps: validation, cache check, key lookup, decryption,     *)
(* cache insert, cache evict, and the membership test lock_account returns *)
(***************************************************************************)
Threads == {"t1", "t2"}

\* a call a thread is about to make, with the key cache it was issued on
ThreadCall(op, password, pre) ==
    [op |-> op, account |-> Addr(1), password |-> password, pc |-> "validate",
     ret |-> "none", err |-> "none", pre |-> pre]

InitConc ==
    /\ keys = <<Addr(1)>>
    /\ signers \in {<<>>, [a \in {Addr(1)} |-> LocalAccount(a)]}
    /\ verified = {}
    /\ addresses = <<>>
    /\ alive = TRUE
    /\ last = NoCall
    /\ hist = <<>>
    /\ threads \in [Threads ->
                      {ThreadCall("unlock_account", p, signers) :
                          p \in {Password(1), WrongPassword}}
                         \cup {ThreadCall("lock_account", None, signers)}]

Goto(t, pc) == [threads EXCEPT ![t].pc = pc]
Finish(t, ret, err) ==
    [threads EXCEPT ![t].pc = "done", ![t].ret = ret, ![t].err = err]

\* the decorator around both methods
Validate(t) ==
    /\ threads[t].pc = "validate"
    /\ \E c \in {wrapped("KeystoreSigner", threads[t].op,
                          [account |-> threads[t].account], Start(signers, verified))} :
          /\ verified' = c.verified
          /\ threads' = IF Failed(c) THEN Finish(t, "none", c.err)
                        ELSE Goto(t, IF threads[t].op = "unlock_account"
                                        THEN "check" ELSE "pop")
    /\ UNCHANGED <<keys, signers, addresses, alive, last, hist>>

\* unlock_account: if not self.__signers.get(account)
CacheCheck(t) ==
    /\ threads[t].pc = "check"
    /\ threads' = IF threads[t].account \in DOMAIN signers
                     THEN Finish(t, "True", "none") ELSE Goto(t, "lookup")
    /\ UNCHANGED <<keys, signers, verified, addresses, alive, last, hist>>

\* unlock_account: key_metadata = self.__keys[account]
KeyLookup(t) ==
    /\ threads[t].pc = "lookup"
    /\ threads' = IF threads[t].account \in Range(keys)
                     THEN Goto(t, "decrypt") ELSE Finish(t, "none", "UnknownAccount")
    /\ UNCHANGED <<keys, signers, verified, addresses, alive, last, hist>>

\* unlock_account: Account.from_key(Account.decrypt(key_metadata, password))
Decrypt(t) ==
    /\ threads[t].pc = "decrypt"
    /\ \E d \in {decrypt(Start(signers, verified), threads[t].account,
                          threads[t].password)} :
          threads' = IF Failed(d) THEN Finish(t, "none", d.err) ELSE Goto(t, "insert")
    /\ UNCHANGED <<keys, signers, verified, addresses, alive, last, hist>>

\* unlock_account: self.__signers[account] = signing_key; return True
CacheInsert(t) ==
    /\ threads[t].pc = "insert"
    /\ signers' = [a \in DOMAIN signers \cup {threads[t].account} |->
                      IF a = threads[t].account
                         THEN LocalAccount(threads[t].account) ELSE signers[a]]
    /\ threads' = Finish(t, "True", "none")
    /\ UNCHANGED <<keys, verified, addresses, alive, last, hist>>

\* lock_account: self.__signers.pop(account), and the except branch
CacheEvict(t) ==
    /\ threads[t].pc = "pop"
    /\ IF threads[t].account \in DOMAIN signers
          THEN /\ signers' = [a \in DOMAIN signers \ {threads[t].account} |-> signers[a]]
               /\ threads' = Goto(t, "result")
          ELSE /\ UNCHANGED signers
               /\ threads' = IF threads[t].account \notin Range(accounts(keys))
                                THEN Finish(t, "none", "UnknownAccount")
                                ELSE Goto(t, "result")
    /\ UNCHANGED <<keys, verified, addresses, alive, last, hist>>

\* lock_account: return account not in self.__signers
LockResult(t) ==
    /\ threads[t].pc = "result"
    /\ threads' = Finish(t, IF threads[t].account \notin DOMAIN signers
                               THEN "True" ELSE "False", "none")
    /\ UNCHANGED <<keys, signers, verified, addresses, alive, last, hist>>

NextConc ==
    \/ \E t \in Threads : Validate(t)
    \/ \E t \in Threads : CacheCheck(t)
    \/ \E t \in Threads : KeyLookup(t)
    \/ \E t \in Threads : Decrypt(t)
    \/ \E t \in Threads : CacheInsert(t)
    \/ \E t \in Threads : CacheEvict(t)
    \/ \E t \in Threads : LockResult(t)

SpecConc == InitConc /\ [][NextConc]_vars

(***************************************************************************)
(* Properties                                                              *)
(***************************************************************************)
IsCall(l, cls, op) == l.cls = cls /\ l.op = op
Known(a) == a \in Range(keys)
\* the account a keystore signing call signs for
Sender(l) == IF l.op = "sign_transaction" THEN l.args.transaction_dict.from
             ELSE l.args.account
IsKsSign(l) == l.cls = "KeystoreSigner" /\ l.op \in {"sign_transaction", "sign_message"}
Has(l, kind) == \E k \in DOMAIN l.trace : l.trace[k].kind = kind

\* C1: a keystore sign_transaction or sign_message succeeds only for an
\* account that is unlocked at the call; for a checksummed address that has a
\* key record but no cached signer it raises AccountLocked, and for one that
\* has no key record UnknownAccount.
C1_SignNeedsUnlocked ==
    IsKsSign(last) =>
        /\ last.err = "none" => Sender(last) \in DOMAIN last.pre
        /\ is_checksum_address(Sender(last)) =>
              /\ Known(Sender(last)) /\ Sender(last) \notin DOMAIN last.pre
                    => last.err = "AccountLocked"
              /\ ~Known(Sender(last)) => last.err = "UnknownAccount"

\* a known account was unlocked and locked again, and signing for it is refused
C1_Witness ==
    /\ IsKsSign(last)
    /\ last.err = "AccountLocked"
    /\ Sender(last) \in verified
    /\ DOMAIN signers # {}

\* an unlock_account of a known, locked account with a string that is not
\* the key file's password
WrongPasswordUnlock(l) ==
    /\ IsCall(l, "KeystoreSigner", "unlock_account")
    /\ Known(l.args.account)
    /\ l.args.account \notin DOMAIN l.pre
    /\ isinstance_str(l.args.password)
    /\ l.args.password # Password(l.args.account.id)

\* C2: unlock_account of a known, locked account with a secret that fails
\* decryption returns False and raises nothing.
C2_DecryptFailureReturnsFalse ==
    WrongPasswordUnlock(last) => last.ret = "False" /\ last.err = "none"

\* the key cache after the i-th remembered call
Post(i) == IF i < Len(hist) THEN hist[i + 1].pre ELSE signers

\* C3: unlock_account with a wrong password leaves the account locked: the
\* key cache is what it was before the call, the account is not in it, and a
\* sign for that account right after it raises AccountLocked.
C3_WrongPasswordStaysLocked ==
    \A i \in DOMAIN hist :
        WrongPasswordUnlock(hist[i]) =>
            /\ Post(i) = hist[i].pre
            /\ hist[i].args.account \notin DOMAIN Post(i)
            /\ (i < Len(hist) /\ IsKsSign(hist[i + 1])
                  /\ Sender(hist[i + 1]) = hist[i].args.account)
                  => hist[i + 1].err = "AccountLocked"

\* a wrong password is tried on a known, locked account, and the next call
\* is a sign for that account
C3_Witness ==
    \E i \in DOMAIN hist :
        /\ WrongPasswordUnlock(hist[i])
        /\ i < Len(hist)
        /\ IsKsSign(hist[i + 1])
        /\ Sender(hist[i + 1]) = hist[i].args.account
        /\ hist[i + 1].err = "AccountLocked"

\* unlock_account of the known account a with the password of its key file
RightPasswordUnlock(l, a) ==
    /\ IsCall(l, "KeystoreSigner", "unlock_account")
    /\ l.args.account = a
    /\ Known(a)
    /\ l.args.password = Password(a.id)

\* three calls in a row: unlock, lock, unlock of one known account
UnlockLockUnlock(i) ==
    /\ i + 2 <= Len(hist)
    /\ RightPasswordUnlock(hist[i], hist[i].args.account)
    /\ IsCall(hist[i + 1], "KeystoreSigner", "lock_account")
    /\ hist[i + 1].args.account = hist[i].args.account
    /\ RightPasswordUnlock(hist[i + 2], hist[i].args.account)

\* C4: unlock_account with the correct password, lock_account, unlock_account
\* with the same password, of one known account: both unlocks return True,
\* and the account is unlocked after the first and the third call and locked
\* after the second.
C4_UnlockLockUnlock ==
    \A i \in DOMAIN hist :
        UnlockLockUnlock(i) =>
            /\ hist[i].ret = "True"
            /\ hist[i + 2].ret = "True"
            /\ hist[i].args.account \in DOMAIN Post(i)
            /\ hist[i].args.account \notin DOMAIN Post(i + 1)
            /\ hist[i].args.account \in DOMAIN Post(i + 2)

\* the three calls were made, starting from the locked account
C4_Witness ==
    \E i \in DOMAIN hist :
        UnlockLockUnlock(i) /\ hist[i].args.account \notin DOMAIN hist[i].pre

\* C5: lock_account of a known account returns True and leaves the account
\* out of the key cache, the other cached signers untouched, whether or not
\* a signer was cached; every lock_account that returns returns True with
\* the account out of the cache; for a checksummed address without a key
\* record it raises UnknownAccount and the key cache is as before.
C5_LockAccount ==
    IsCall(last, "KeystoreSigner", "lock_account") =>
        /\ Known(last.args.account) =>
              /\ last.err = "none"
              /\ signers = [a \in DOMAIN last.pre \ {last.args.account} |-> last.pre[a]]
        /\ last.err = "none" =>
              last.ret = "True" /\ last.args.account \notin DOMAIN signers
        /\ (is_checksum_address(last.args.account) /\ ~Known(last.args.account)) =>
              last.err = "UnknownAccount" /\ signers = last.pre

\* a known account that had no cached signer is locked, while another has one
C5_Witness ==
    /\ IsCall(last, "KeystoreSigner", "lock_account")
    /\ Known(last.args.account)
    /\ last.args.account \notin DOMAIN last.pre
    /\ last.ret = "True"
    /\ DOMAIN signers # {}

\* C6: unlock_account of an account that is unlocked returns True whatever
\* the secret, decrypts nothing and leaves the key cache as it was; for a
\* checksummed address without a key record it raises UnknownAccount,
\* decrypts nothing and caches nothing.
C6_UnlockAccountNoOp ==
    IsCall(last, "KeystoreSigner", "unlock_account") =>
        /\ last.args.account \in DOMAIN last.pre =>
              /\ last.ret = "True" /\ last.err = "none"
              /\ ~Has(last, "decrypt")
              /\ signers = last.pre
        /\ (is_checksum_address(last.args.account) /\ ~Known(last.args.account)) =>
              /\ last.err = "UnknownAccount"
              /\ ~Has(last, "decrypt")
              /\ signers = last.pre

\* an unlocked account is unlocked again with a secret that is not its password
C6_Witness ==
    /\ IsCall(last, "KeystoreSigner", "unlock_account")
    /\ last.args.account \in DOMAIN last.pre
    /\ last.args.password # Password(last.args.account.id)
    /\ last.ret = "True"

\* C7: after the keystore is destroyed, whatever accounts were unlocked, the
\* key cache is empty.
C7_TeardownLocksAll ==
    /\ IsCall(last, "KeystoreSigner", "__del__") => last.err = "none"
    /\ ~alive => DOMAIN signers = {}

\* a keystore whose last account is unlocked and whose first is not is
\* destroyed
C7_Witness ==
    /\ IsCall(last, "KeystoreSigner", "__del__")
    /\ Len(keys) > 1
    /\ keys[Len(keys)] \in DOMAIN last.pre
    /\ keys[1] \notin DOMAIN last.pre

PassKinds == {"hit", "optional", "checked"}

\* the k-th step of the call is the entry into a decorated method, and the
\* steps right before it are the passed validations of its address
\* parameters, in declaration order
EnteredAfterValidation(l, k) ==
    LET params == addresses_as_parameters(l.trace[k].detail, l.trace[k].name)
        n == Len(params)
    IN /\ k > n
       /\ \A j \in 1..n :
             /\ l.trace[k - n + j - 1].kind = "validate"
             /\ l.trace[k - n + j - 1].name = params[j].name
             /\ l.trace[k - n + j - 1].detail \in PassKinds

\* the call ended in a failed validation
ValidationFailed(l) ==
    /\ Len(l.trace) > 0
    /\ l.trace[Len(l.trace)].kind = "validate"
    /\ l.trace[Len(l.trace)].detail \notin PassKinds

\* C8: a decorated method is entered only after each of its address
\* parameters passed validation; a call that ends in a failed validation
\* raises TypeError or InvalidChecksumAddress, and it has left the key cache
\* and the device address cache as they were and issued no decryption, no
\* IPC request and no device call; when it is the validation of the call's
\* own parameters that failed, no method body was entered at all.
C8_ValidationBeforeOperation ==
    /\ \A k \in DOMAIN last.trace :
          (last.trace[k].kind = "body"
             /\ Decorated(last.trace[k].detail, last.trace[k].name))
             => EnteredAfterValidation(last, k)
    /\ ValidationFailed(last) =>
          /\ last.err \in {"TypeError", "InvalidChecksumAddress"}
          /\ signers = last.pre
          /\ addresses = [a \in {Addr(i) : i \in 1..ADDRESS_CACHE_SIZE} |-> a.id - 1]
          /\ ~Has(last, "decrypt") /\ ~Has(last, "ipc") /\ ~Has(last, "device")
          /\ Len(last.trace) <= Len(addresses_as_parameters(last.cls, last.op))
                => ~Has(last, "body")

\* a call with two address parameters: the first passes, the second fails,
\* while the keystore holds an unlocked account
C8_Witness ==
    /\ IsCall(last, "ClefSigner", "sign_message")
    /\ Len(last.trace) = 2
    /\ last.trace[1].detail \in PassKinds
    /\ last.trace[2].detail = "InvalidChecksumAddress"
    /\ DOMAIN signers # {}

\* C9: a call that passes a non-string value (None included) for an
\* address-shaped parameter raises TypeError and the method body is not
\* entered.
C9_NonStringNeverReachesOperation ==
    \A j \in DOMAIN Signature(last.cls, last.op) :
        (IsAddressParam(Signature(last.cls, last.op)[j])
           /\ ~isinstance_str(last.args[Signature(last.cls, last.op)[j].name]))
           => /\ last.err = "TypeError"
              /\ ~\E k \in DOMAIN last.trace :
                    last.trace[k].kind = "body" /\ last.trace[k].name = last.op

\* C10: a string that passed validation is in the verified cache, the cache
\* never loses it, and every later validation of it is a cache hit.
C10_RevalidationHitsCache ==
    [][/\ verified \subseteq verified'
       /\ \A k \in DOMAIN last'.trace :
             last'.trace[k].kind = "validate" =>
                /\ last'.trace[k].value \in verified => last'.trace[k].detail = "hit"
                /\ last'.trace[k].detail \in {"checked", "hit"}
                      => last'.trace[k].value \in verified']_vars

\* a validation hits the cache while the cache holds other addresses too
C10_Witness ==
    /\ \E k \in DOMAIN last.trace :
          /\ last.trace[k].kind = "validate"
          /\ last.trace[k].detail = "hit"
          /\ verified \ {last.trace[k].value} # {}
    /\ last.err = "none"

\* C11: every call of a signer operation that fails fails with an exception
\* derived from SignerError; the failures of the address validation, which
\* come before the operation, are the taxonomy's type and checksum mismatch.
C11_EveryFailureIsSignerError ==
    (last.err # "none" /\ ~ValidationFailed(last)) => last.err \in SignerErrors

\* the call issued an IPC request while the daemon's endpoint was missing
\* or refused the connection
IpcUnreachable(l) ==
    \E k \in DOMAIN l.trace :
        /\ l.trace[k].kind = "ipc"
        /\ l.trace[k].detail \in {"FileNotFoundError", "ConnectionRefusedError"}

\* C12: a call of ClefSigner (accounts, sign_transaction, sign_message) that
\* finds the IPC endpoint missing or refusing the connection fails with an
\* error of the signer taxonomy, not with the raw I/O error.
C12_DaemonUnreachableIsSignerError ==
    (last.cls = "ClefSigner" /\ IpcUnreachable(last)) =>
        /\ last.err \in SignerErrors
        /\ last.err \notin {"FileNotFoundError", "ConnectionRefusedError"}

\* the call reached the device, and the USB transport did `status`
DeviceDid(l, status) ==
    \E k \in DOMAIN l.trace :
        l.trace[k].kind = "device" /\ l.trace[k].detail = status

\* C13: a device call (get_address, sign_message, sign_transaction) that
\* finds the device gone raises NoDeviceDetected, and one that finds it busy
\* raises the device error of its own.
C13_DeviceErrorsToldApart ==
    last.cls = "TrezorSigner" =>
        /\ DeviceDid(last, "USBErrorNoDevice") => last.err = "NoDeviceDetected"
        /\ DeviceDid(last, "USBErrorBusy") => last.err = "DeviceError"

\* a sign_transaction of a transaction whose destination is empty
ContractCreation(l) ==
    l.op = "sign_transaction" /\ Falsy(l.args.transaction_dict.to)
\* the step hands a transaction to a signer, a daemon, a device or a
\* serializer
HandsOn(e) == e.kind = "payload" \/ (e.kind = "sign" /\ e.name = "transaction")

\* C14: in a sign_transaction of a contract creation (destination '', b''
\* or None) that runs to its end, of any backend, every step that is handed
\* the transaction gets it without a recipient or with a null one.
C14_CreationHasNoRecipient ==
    (ContractCreation(last) /\ last.err = "none") =>
        \A k \in DOMAIN last.trace :
            HandsOn(last.trace[k]) => last.trace[k].detail \in {"to absent", "to null"}

\* a ClefSigner.sign_message with the intended-validator content type and a
\* validator address that is None or NULL_ADDRESS
ValidatorMissing(l) ==
    /\ IsCall(l, "ClefSigner", "sign_message")
    /\ l.args.content_type = SIGN_DATA_FOR_VALIDATOR
    /\ l.args.validator_address \in {None, NULL_ADDRESS}

\* C15: ClefSigner.sign_message with the intended-validator content type and
\* a validator address that is absent or NULL_ADDRESS fails and issues no IPC
\* request; when the account passes the address validation, which comes
\* first, the failure is the ValueError of the missing validator address.
C15_ValidatorAddressRequired ==
    ValidatorMissing(last) =>
        /\ last.err # "none"
        /\ ~Has(last, "ipc")
        /\ ~ValidationFailed(last) => last.err = "ValueError"

\* the call was made with NULL_ADDRESS as validator address, which passed the
\* address validation, for an account that passed it too
C15_Witness ==
    /\ ValidatorMissing(last)
    /\ last.args.validator_address = NULL_ADDRESS
    /\ last.err = "ValueError"
    /\ {last.args.account, NULL_ADDRESS} \subseteq verified

\* C16: get_address with both an index and an explicit HD path fails with a
\* usage error and issues no device call.
C16_GetAddressIndexAndPath ==
    (IsCall(last, "TrezorSigner", "get_address")
        /\ last.args.index # None /\ ~Falsy(last.args.hd_path)) =>
        last.err = "ValueError" /\ ~Has(last, "device")

\* a TrezorSigner call that finds the HD path by address
ByAddress(l) ==
    /\ l.cls = "TrezorSigner"
    /\ \/ l.op = "get_address_path" /\ l.args.index = None
       \/ l.op \in {"sign_message", "sign_transaction"}
AddressOf(l) ==
    IF l.op = "sign_transaction" THEN l.args.transaction_dict.from
    ELSE l.args.checksum_address

Invokes(l, k, cls) ==
    l.trace[k].kind \in {"from_signer_uri", "construct"} /\ l.trace[k].name = cls
Constructs(l) == \E k \in DOMAIN l.trace : l.trace[k].kind = "construct"

\* C18: Signer.from_signer_uri invokes the from_signer_uri of the class
\* registered for the URI's scheme, of Web3Signer when none is, and of no
\* other class; with KeystoreSigner registered, a keystore URI with an
\* authority raises InvalidSignerURI and no signer is constructed.
C18_FactoryDispatch ==
    IsCall(last, "Signer", "from_signer_uri") =>
        LET uri == last.args.uri
            SIGNERS == last.args.SIGNERS
            registered == IF uri.scheme \in DOMAIN SIGNERS
                             THEN SIGNERS[uri.scheme] ELSE "Web3Signer"
        IN /\ Len(last.trace) > 0
           /\ last.trace[1].kind = "from_signer_uri"
           /\ \A k \in DOMAIN last.trace :
                 last.trace[k].kind \in {"from_signer_uri", "construct"}
                    => Invokes(last, k, registered)
           /\ last.err = "none" => last.ret = registered
           /\ (uri.scheme = "keystore" /\ uri.netloc # ""
                  /\ "keystore" \in DOMAIN SIGNERS) =>
                 /\ last.err = "InvalidSignerURI"
                 /\ ~Constructs(last)
                 /\ keys = <<>>

\* a keystore URI with an authority and a path was given while every
\* backend was registered
C18_Witness ==
    /\ IsCall(last, "Signer", "from_signer_uri")
    /\ last.args.uri = Uri("keystore", "host", "/path")
    /\ DOMAIN last.args.SIGNERS = {"clef", "keystore", "trezor"}
    /\ last.err = "InvalidSignerURI"

\* a file that is no JSON, no JSON object, or an object without an address
\* that is one
BadKeyfile(f) == f.json # "object" \/ ~is_address(f.address)

\* C19: the construction of a KeystoreSigner over a path with a file that
\* does not parse, is no JSON object or has no valid address raises
\* InvalidKeyfile, and the message names the path of such a file, whatever
\* the other files and their order.
C19_BadKeyfileIsInvalidKeyfile ==
    (IsCall(last, "Signer", "from_signer_uri")
        /\ \E k \in DOMAIN last.trace : Invokes(last, k, "KeystoreSigner")
                                          /\ last.trace[k].kind = "construct"
        /\ \E i \in DOMAIN last.args.entry.files :
              BadKeyfile(last.args.entry.files[i])) =>
        /\ last.err = "InvalidKeyfile"
        /\ \E k \in DOMAIN last.trace :
              /\ last.trace[k].kind = "named"
              /\ BadKeyfile(last.args.entry.files[last.trace[k].value.id])

\* the call of a thread run alone on the key cache sg
RunAlone(call, sg, vf) ==
    IF call.op = "unlock_account"
       THEN unlock_account(keys, [account |-> call.account, password |-> call.password],
                           Start(sg, vf))
       ELSE lock_account(keys, [account |-> call.account], Start(sg, vf))

\* the calls of a and b returned or raised what they do when a runs to its
\* end before b starts
AsInOrder(a, b) ==
    LET first == RunAlone(threads[a], threads[a].pre, {})
        second == RunAlone(threads[b], first.signers, first.verified)
    IN /\ threads[a].ret = first.ret /\ threads[a].err = first.err
       /\ threads[b].ret = second.ret /\ threads[b].err = second.err

\* C20: when two calls of unlock_account or lock_account for the same known
\* account have run in parallel, the account has its one signer cached or
\* none, and each call returned or raised what it does in one of the two
\* orders in which the calls can run one after the other.
C20_ParallelAsSequential ==
    (\A t \in Threads : threads[t].pc = "done") =>
        /\ DOMAIN signers \subseteq {Addr(1)}
        /\ \A a \in DOMAIN signers : signers[a] = LocalAccount(a)
        /\ AsInOrder("t1", "t2") \/ AsInOrder("t2", "t1")

\* C21: in a TrezorSigner.sign_transaction of a transfer (the destination
\* is an address) that runs to its end, 'chainId' is deleted before the
\* Transaction is serialized, and the recipient of the serialized
\* Transaction is the canonical encoding of the destination the input
\* transaction gave.
C21_RecipientIsDestination ==
    (/\ IsCall(last, "TrezorSigner", "sign_transaction")
     /\ is_checksum_address(last.args.transaction_dict.to)
     /\ last.err = "none") =>
        \A k \in DOMAIN last.trace :
            (last.trace[k].kind = "payload" /\ last.trace[k].name = "Transaction") =>
                /\ \E j \in 1..(k - 1) :
                      last.trace[j].kind = "del" /\ last.trace[j].detail = "chainId"
                /\ last.trace[k].value =
                      to_canonical_address(last.args.transaction_dict.to)

\* the account_signData requests the call issued
SignDataRequests(l) ==
    {k \in DOMAIN l.trace :
        l.trace[k].kind = "ipc" /\ l.trace[k].name = "account_signData"}

\* C22: a ClefSigner.sign_message whose addresses pass the validation fails
\* with the ValueError that lists the valid content types, and issues no IPC
\* request, when its content type is a string outside SIGN_DATA_CONTENT_TYPES;
\* when its content type is in SIGN_DATA_CONTENT_TYPES (with a validator
\* address for the intended-validator type) it issues exactly one
\* account_signData request.
C22_ContentTypes ==
    (IsCall(last, "ClefSigner", "sign_message") /\ ~ValidationFailed(last)) =>
        /\ last.args.content_type \notin SIGN_DATA_CONTENT_TYPES \cup {NoContentType} =>
              last.err = "ValueError" /\ ~Has(last, "ipc")
        /\ (/\ last.args.content_type \in SIGN_DATA_CONTENT_TYPES
            /\ ~ValidatorMissing(last)) =>
              Cardinality(SignDataRequests(last)) = 1

\* C23: no call of unlock_account, lock_account, sign_transaction or
\* sign_message of a KeystoreSigner, ended or failed, changes what accounts()
\* returns: the same addresses in the same order.
C23_AccountsFixed == [][accounts(keys') = accounts(keys)]_vars

\* a keystore of two accounts or more, read in another order than that of
\* the addresses, on which an unlock_account decrypted a key and a later
\* call failed
C23_Witness ==
    /\ Len(accounts(keys)) >= 2
    /\ accounts(keys)[1] # Addr(1)
    /\ \E i, j \in DOMAIN hist :
          /\ i < j
          /\ IsCall(hist[i], "KeystoreSigner", "unlock_account")
          /\ hist[i].ret = "True"
          /\ hist[i].args.account \notin DOMAIN hist[i].pre
          /\ hist[j].err # "none"

\* C24: in every reachable state every address with a cached signer is one
\* of the accounts the keystore read, the signer cached for it is the one
\* its own key file yields, and no address is cached under two keys.
C24_UnlockedIsKnown ==
    /\ DOMAIN signers \subseteq Range(accounts(keys))
    /\ \A a \in DOMAIN signers : signers[a] = LocalAccount(a)
    /\ \A a, b \in DOMAIN signers : a.id = b.id => a = b

\* an unlock_account of a well-formed address the keystore does not hold
\* has failed, on a keystore that has one signer cached and another of its
\* accounts locked
C24_Witness ==
    /\ IsCall(last, "KeystoreSigner", "unlock_account")
    /\ is_checksum_address(last.args.account)
    /\ ~Known(last.args.account)
    /\ last.args.password = Password(last.args.account.id)
    /\ last.err = "UnknownAccount"
    /\ DOMAIN signers # {}
    /\ Range(keys) \ DOMAIN signers # {}

\* the call validated the value v with the checksum test, and v passed
PassedCheck(l, v) ==
    \E k \in DOMAIN l.trace :
        /\ l.trace[k].kind = "validate"
        /\ l.trace[k].detail = "checked"
        /\ l.trace[k].value = v

\* C25: no call removes an address from the verified addresses; every
\* address in them is a string that is a checksum address; and every address
\* a call adds is one that passed the checksum test in that call, so that a
\* value that fails its validation is not added.
C25_VerifiedCache ==
    [][/\ verified \subseteq verified'
       /\ \A v \in verified' : isinstance_str(v) /\ is_checksum_address(v)
       /\ \A v \in verified' \ verified : PassedCheck(last', v)]_vars

\* a call with two address parameters ended in the failed validation of the
\* second, a malformed string, after the first was added to the verified
\* addresses; the malformed string is not among them
C25_Witness ==
    /\ IsCall(last, "ClefSigner", "sign_message")
    /\ ValidationFailed(last)
    /\ PassedCheck(last, last.args.account)
    /\ last.args.account \in verified
    /\ last.args.validator_address = Lower(1)
    /\ last.args.validator_address \notin verified

====
